---- MODULE Spec2Model ----
(***************************************************************************)
(* State-machine model of scuttle-chat's secure-connection core:           *)
(*   src/src/peer_connection.rs  Handshaker, PeerConnection, the Reader    *)
(*                               Loop and the Writer Loop                  *)
(*   src/src/event.rs            Events, the four-producer multiplexer     *)
(*                                                                         *)
(* A TCP stream has two ends, "c" (built by client_handshake) and "s"       *)
(* (built by server_handshake).                                            *)
(*                                                                         *)
(* Spec           : one end is this program, the other the environment,    *)
(*                  which may send, close, fail or forge on the transport. *)
(* SpecWriterFair : the outbound side of Spec, its Writer Loop scheduled.  *)
(* SpecE2E        : both ends are this program, on a transport that does   *)
(*                  not fail, the loops scheduled.                         *)
(* SpecPair       : both ends are this program; construction and socket    *)
(*                  writes may fail.                                       *)
(* SpecMux        : the event multiplexer of event.rs.                     *)
(* SpecMuxFair    : SpecMux with its Tick thread scheduled.                *)
(*                                                                         *)
(* The nonce generators of the box stream are left out: the transport is   *)
(* an ordered byte stream, and a frame is modelled by the key that sealed  *)
(* it and its payload.                                                     *)
(***************************************************************************)
EXTENDS Integers, Sequences, FiniteSets, TLC

\* ------------------------------------------------------------------ bounds
\* Messages accepted on the outbound queues of the two connections together.
MaxEnq == 2
\* Frames the environment puts on the two inbound transports together.
MaxInject == 2
\* Live copies of one connection's peer_writer_tx.
MaxCopies == 2
\* Events sent to the multiplexer's shared queue.
MaxArrived == 4
\* Events the peer manager puts on peer_manager_rx.
MaxPm == 2

VARIABLES
    \* ---- peer_connection.rs
    ends,           \* the ends of the stream this program runs; the others are the environment
    hs_call,        \* history: what the environment answered to each handshake call
    network_key,    \* Handshaker.network_key of the Handshaker driving each end
    stream,         \* the TcpStream opened by connect_timeout: NoStream or what the server end observes
    result,         \* what client_handshake / server_handshake returned ("none": not called yet)
    auth_ran,       \* perform_handshake has been called
    peer,           \* PeerConnection.peer
    hs_keys,        \* the HandshakeKeys the box stream halves were built with
    spawned,        \* the loops thread::spawn has started for the connection
    pc_alive,       \* the PeerConnection value has not been dropped
    tx_copies,      \* live copies of peer_writer_tx (the PeerConnection's own included)
    outq,           \* the mpsc channel of spawn_writer_loop
    writer_pc,      \* "none", "recv" (at rx.recv), "send" (at box_writer.send), "done"
    writer_msg,     \* peer_msg of the Writer Loop
    writer_res,     \* completion value of the Writer Loop's thread
    reader_pc,      \* "none", "recv" (at box_reader.recv), "done"
    reader_res,     \* completion value of the Reader Loop's thread
    wire,           \* frames on the transport towards each end, not read yet
    event_bus,      \* events the shared sink has accepted
    bus_alive,      \* the sink's Receiver has not been dropped
    enqueued,       \* history: messages accepted by peer_writer_tx.send
    written,        \* history: payloads passed to box_writer.send
    recv_log,       \* history: what box_reader.recv returned
    injected,       \* frames put on the transports by the environment
    \* ---- event.rs
    rx_queue,       \* the mpsc channel of Events::with_config
    rx_alive,       \* the Events value (its rx) has not been dropped
    arrived,        \* history: events accepted by the shared queue
    delivered,      \* history: events returned by next()
    last_next,      \* "none", "event" or "err": what the last next() returned
    input_pc,       \* Input producer: "run" or "done"
    input_stop,     \* why it stopped: "none", "exit", "send_err", "eof"
    input_last,     \* the last key stdin.keys() yielded
    tick_pc,        \* Tick producer: "run" or "panicked"
    new_peer_pc,    \* Discovery relay: "run"
    pm_pc,          \* Peer-manager relay: "run"
    sent_n,         \* history: events of each producer the shared queue has accepted
    pm_chan,        \* peer_manager_rx
    pm_tx_alive,    \* the sender of peer_manager_rx has not been dropped
    pm_made         \* events the peer manager has sent

conn_vars == <<ends, hs_call, network_key, stream, result, auth_ran, peer, hs_keys, spawned, pc_alive,
               tx_copies, outq, writer_pc, writer_msg, writer_res, reader_pc, reader_res,
               wire, event_bus, bus_alive, enqueued, written, recv_log, injected>>

mux_vars == <<rx_queue, rx_alive, arrived, delivered, last_next, input_pc, input_stop,
              input_last, tick_pc, new_peer_pc, pm_pc, sent_n, pm_chan, pm_tx_alive, pm_made>>

vars == <<conn_vars, mux_vars>>

\* --------------------------------------------------------------- utilities
IsPrefix(s, t) == /\ Len(s) <= Len(t)
                  /\ \A i \in 1..Len(s) : s[i] = t[i]

RECURSIVE Flatten(_)
Flatten(ss) == IF ss = <<>> THEN <<>> ELSE Head(ss) \o Flatten(Tail(ss))

\* ------------------------------------------------------- strings and bytes
\* A String is the sequence of its code points, a Vec<u8> a sequence of bytes.
IsCont(b) == b >= 128 /\ b <= 191

\* String::into_bytes: the UTF-8 encoding of the text.
EncodeChar(cp) ==
    IF cp < 128 THEN <<cp>>
    ELSE IF cp < 2048 THEN <<192 + (cp \div 64), 128 + (cp % 64)>>
    ELSE IF cp < 65536
         THEN <<224 + (cp \div 4096), 128 + ((cp \div 64) % 64), 128 + (cp % 64)>>
    ELSE <<240 + (cp \div 262144), 128 + ((cp \div 4096) % 64),
           128 + ((cp \div 64) % 64), 128 + (cp % 64)>>

into_bytes(text) == Flatten([i \in 1..Len(text) |-> EncodeChar(text[i])])

\* Length of the well-formed UTF-8 sequence at the head of b, 0 when there is none.
Utf8Width(b) ==
    LET n  == Len(b)
        b1 == b[1]
    IN  IF b1 < 128 THEN 1
        ELSE IF b1 >= 194 /\ b1 <= 223
             THEN IF n >= 2 /\ IsCont(b[2]) THEN 2 ELSE 0
        ELSE IF b1 >= 224 /\ b1 <= 239
             THEN IF /\ n >= 3
                     /\ IsCont(b[2])
                     /\ IsCont(b[3])
                     /\ (b1 = 224 => b[2] >= 160)
                     /\ (b1 = 237 => b[2] <= 159)
                  THEN 3 ELSE 0
        ELSE IF b1 >= 240 /\ b1 <= 244
             THEN IF /\ n >= 4
                     /\ IsCont(b[2])
                     /\ IsCont(b[3])
                     /\ IsCont(b[4])
                     /\ (b1 = 240 => b[2] >= 144)
                     /\ (b1 = 244 => b[2] <= 143)
                  THEN 4 ELSE 0
        ELSE 0

DecodeChar(b, w) ==
    IF w = 1 THEN b[1]
    ELSE IF w = 2 THEN (b[1] - 192) * 64 + (b[2] - 128)
    ELSE IF w = 3 THEN (b[1] - 224) * 4096 + (b[2] - 128) * 64 + (b[3] - 128)
    ELSE (b[1] - 240) * 262144 + (b[2] - 128) * 4096 + (b[3] - 128) * 64 + (b[4] - 128)

\* String::from_utf8: [ok |-> TRUE, text |-> ...] or [ok |-> FALSE, text |-> <<>>].
RECURSIVE from_utf8(_)
from_utf8(b) ==
    IF b = <<>> THEN [ok |-> TRUE, text |-> <<>>]
    ELSE LET w == Utf8Width(b)
         IN  IF w = 0 THEN [ok |-> FALSE, text |-> <<>>]
             ELSE LET rest == from_utf8(SubSeq(b, w + 1, Len(b)))
                  IN  IF rest.ok
                      THEN [ok |-> TRUE, text |-> <<DecodeChar(b, w)>> \o rest.text]
                      ELSE rest

\* Decimal digits of n as code points ('0' is 48).
RECURSIVE Decimal(_)
Decimal(n) == IF n < 10 THEN <<48 + n>> ELSE Decimal(n \div 10) \o <<48 + (n % 10)>>

\* The elements of a Vec<u8> under {:?}, separated by ", ".
RECURSIVE DebugItems(_)
DebugItems(b) ==
    IF b = <<>> THEN <<>>
    ELSE IF Len(b) = 1 THEN Decimal(b[1])
    ELSE Decimal(b[1]) \o <<44, 32>> \o DebugItems(Tail(b))

\* "Raw bytes: "
RawBytesPrefix == <<82, 97, 119, 32, 98, 121, 116, 101, 115, 58, 32>>

\* format!("Raw bytes: {:?}", raw_bytes)
RawBytesText(b) == RawBytesPrefix \o <<91>> \o DebugItems(b) \o <<93>>

\* "Goodbye!"
GoodbyeText == <<71, 111, 111, 100, 98, 121, 101, 33>>

\* Mutant: the fallback rendering is used for every payload.
PeerMsgOfRawOnly(maybe_bytes) ==
    IF maybe_bytes.some THEN RawBytesText(maybe_bytes.bytes) ELSE GoodbyeText

\* Mutant: a payload that is not UTF-8 is given the empty text.
PeerMsgOfEmptyOnInvalid(maybe_bytes) ==
    IF maybe_bytes.some
    THEN LET r == from_utf8(maybe_bytes.bytes)
         IN  IF r.ok THEN r.text ELSE <<>>
    ELSE GoodbyeText

\* The match of the Reader Loop: the text of the event for one recv result.
PeerMsgOf(maybe_bytes) ==
    IF maybe_bytes.some
    THEN LET r == from_utf8(maybe_bytes.bytes)
         IN  IF r.ok THEN r.text ELSE RawBytesText(maybe_bytes.bytes)
    ELSE GoodbyeText

\* ============================================================ peer_connection.rs
\* The two ends of one TCP stream: "c" is built by client_handshake, "s" by
\* server_handshake on the accepted stream.
Conns == {"c", "s"}

Other(c) == IF c = "c" THEN "s" ELSE "c"

NetKeys == {"nk1", "nk2"}

\* Handshaker.public_key of the Handshaker driving each end.
PublicKeyOf == [c |-> "pkC", s |-> "pkS"]

ClientSocketAddr == "addrC"

ServerSocketAddr == "addrS"

\* The PeerAddr values a caller passes to client_handshake: the listening peer,
\* or the same address with a public key the listener does not hold.
ClientTargets ==
    {[public_key |-> pk, socket_addr |-> ServerSocketAddr, protocol |-> "Net"] :
        pk \in {"pkS", "pkX"}}

\* Texts a caller enqueues: "ping" and "\u{e9}" (two bytes in UTF-8).
Texts == {<<112, 105, 110, 103>>, <<233>>}

\* Payloads a remote implementation may send: "p", and a truncated two-byte sequence.
RawPayloads == {<<112>>, <<195>>}

NoStream == [open |-> FALSE, claimed_pk |-> "none", client_addr |-> "none"]

NoPeer == [public_key |-> "none", socket_addr |-> "none", protocol |-> "none"]

NoKey == [dir |-> "none", nk |-> "none"]

NoKeys == [write_key |-> NoKey, read_key |-> NoKey]

\* ---- collaborators (ssb_handshake, crate::box_stream), from their contracts
\* The handshake succeeds when the transport holds, both ends use the same
\* network key and the initiator names the responder's public key.
HandshakeAgrees(claimed_pk, io_ok) ==
    /\ io_ok
    /\ network_key["c"] = network_key["s"]
    /\ claimed_pk = PublicKeyOf["s"]

\* The session keys of one end: one key per direction, derived from the network key.
SessionKeys(c) ==
    IF c = "c"
    THEN [write_key |-> [dir |-> "c2s", nk |-> network_key[c]],
          read_key  |-> [dir |-> "s2c", nk |-> network_key[c]]]
    ELSE [write_key |-> [dir |-> "s2c", nk |-> network_key[c]],
          read_key  |-> [dir |-> "c2s", nk |-> network_key[c]]]

\* ssb_handshake::client
ssb_client(peer_pk, io_ok) ==
    IF HandshakeAgrees(peer_pk, io_ok)
    THEN [ok |-> TRUE, keys |-> SessionKeys("c")]
    ELSE [ok |-> FALSE, keys |-> NoKeys]

\* ssb_handshake::server_with_client_pk
ssb_server_with_client_pk(io_ok) ==
    IF HandshakeAgrees(stream.claimed_pk, io_ok)
    THEN [ok |-> TRUE, client_pk |-> PublicKeyOf["c"], keys |-> SessionKeys("s")]
    ELSE [ok |-> FALSE, client_pk |-> "none", keys |-> NoKeys]

\* BoxWriter::send: one frame sealed with the write key.
BoxWriterFrame(bytes, write_key) == [kind |-> "data", key |-> write_key, bytes |-> bytes]

\* BoxReader::recv on the next frame: Err, Ok(None) (goodbye) or Ok(Some(bytes)).
BoxReaderRecv(frame, read_key) ==
    IF frame.kind = "bad" \/ frame.key # read_key
    THEN [ok |-> FALSE, some |-> FALSE, bytes |-> <<>>]
    ELSE IF frame.kind = "goodbye"
    THEN [ok |-> TRUE, some |-> FALSE, bytes |-> <<>>]
    ELSE [ok |-> TRUE, some |-> TRUE, bytes |-> frame.bytes]

\* ---- construction
\* The closure client_handshake passes to from_handshake.
ClientAuth(target, io_ok) ==
    LET keys == ssb_client(target.public_key, io_ok)
    IN  [ok |-> keys.ok, peer |-> IF keys.ok THEN target ELSE NoPeer, keys |-> keys.keys]

\* Mutant: the PeerAddr is built from the Handshaker's own public key.
ServerAuthOwnKey(io_ok) ==
    LET r == ssb_server_with_client_pk(io_ok)
    IN  [ok   |-> r.ok,
         peer |-> IF r.ok
                  THEN [public_key  |-> PublicKeyOf["s"],
                        socket_addr |-> stream.client_addr,
                        protocol    |-> "Net"]
                  ELSE NoPeer,
         keys |-> r.keys]

\* The closure server_handshake passes to from_handshake; io_ok also stands for
\* stream.peer_addr() succeeding.
ServerAuth(io_ok) ==
    LET r == ssb_server_with_client_pk(io_ok)
    IN  [ok   |-> r.ok,
         peer |-> IF r.ok
                  THEN [public_key  |-> r.client_pk,
                        socket_addr |-> stream.client_addr,
                        protocol    |-> "Net"]
                  ELSE NoPeer,
         keys |-> r.keys]

\* Mutant: the socket handle is duplicated before the authentication step's
\* result is looked at.
FromHandshakeResultCloneFirst(auth, clone_ok) ==
    IF ~clone_ok THEN "TcpStreamCloneFailed"
    ELSE IF ~auth.ok THEN "HandshakeFailed"
    ELSE "Ok"

\* The Result of from_handshake for one outcome of the authentication step and
\* of try_clone.
FromHandshakeResult(auth, clone_ok) ==
    IF ~auth.ok THEN "HandshakeFailed"
    ELSE IF ~clone_ok THEN "TcpStreamCloneFailed"
    ELSE "Ok"

\* Mutant: the Reader Loop is spawned on the stream before try_clone is tried.
LoopsSpawnedBeforeClone(res) ==
    IF res = "Ok" THEN {"writer", "reader"}
    ELSE IF res = "TcpStreamCloneFailed" THEN {"reader"}
    ELSE {}

\* The loops from_handshake has spawned when it returns res.
LoopsSpawned(res) == IF res = "Ok" THEN {"writer", "reader"} ELSE {}

\* PeerConnection::from_handshake
FromHandshake(c, auth, clone_ok) ==
    LET res == FromHandshakeResult(auth, clone_ok)
        thr == LoopsSpawned(res)
    IN  /\ auth_ran' = [auth_ran EXCEPT ![c] = TRUE]
        /\ result' = [result EXCEPT ![c] = res]
        /\ spawned' = [spawned EXCEPT ![c] = thr]
        /\ writer_pc' = [writer_pc EXCEPT ![c] = IF "writer" \in thr THEN "recv" ELSE @]
        /\ reader_pc' = [reader_pc EXCEPT ![c] = IF "reader" \in thr THEN "recv" ELSE @]
        /\ hs_keys' = [hs_keys EXCEPT ![c] = IF thr # {} THEN auth.keys ELSE @]
        /\ peer' = [peer EXCEPT ![c] = IF res = "Ok" THEN auth.peer ELSE @]
        /\ pc_alive' = [pc_alive EXCEPT ![c] = (res = "Ok")]
        /\ tx_copies' = [tx_copies EXCEPT ![c] = IF res = "Ok" THEN 1 ELSE 0]

\* Handshaker::client_handshake
ClientHandshake(target, connect_ok, io_ok, clone_ok) ==
    /\ "c" \in ends
    /\ result["c"] = "none"
    /\ IF ~connect_ok
       THEN /\ result' = [result EXCEPT !["c"] = "CannotConnectToPeer"]
            /\ UNCHANGED <<stream, auth_ran, spawned, writer_pc, reader_pc, hs_keys, peer,
                           pc_alive, tx_copies>>
       ELSE /\ stream' = [open        |-> TRUE,
                          claimed_pk  |-> target.public_key,
                          client_addr |-> ClientSocketAddr]
            /\ FromHandshake("c", ClientAuth(target, io_ok), clone_ok)
    /\ hs_call' = [hs_call EXCEPT !["c"] =
                       [called     |-> TRUE,
                        connect_ok |-> connect_ok,
                        auth_ok    |-> connect_ok /\ ClientAuth(target, io_ok).ok,
                        clone_ok   |-> clone_ok]]
    /\ UNCHANGED <<ends, network_key, outq, writer_msg, writer_res, reader_res, wire,
                   event_bus, bus_alive, enqueued, written, recv_log, injected>>
    /\ UNCHANGED mux_vars

\* Handshaker::server_handshake, on the stream the listener accepted.
ServerHandshake(io_ok, clone_ok) ==
    /\ "s" \in ends
    /\ result["s"] = "none"
    /\ stream.open
    /\ FromHandshake("s", ServerAuth(io_ok), clone_ok)
    /\ hs_call' = [hs_call EXCEPT !["s"] =
                       [called     |-> TRUE,
                        connect_ok |-> TRUE,
                        auth_ok    |-> ServerAuth(io_ok).ok,
                        clone_ok   |-> clone_ok]]
    /\ UNCHANGED <<ends, network_key, stream, outq, writer_msg, writer_res, reader_res, wire,
                   event_bus, bus_alive, enqueued, written, recv_log, injected>>
    /\ UNCHANGED mux_vars

\* ---- the outbound-send handle
TotalEnqueued == Len(enqueued["c"]) + Len(enqueued["s"])

\* Mutant: the channel is a sync_channel of capacity 1, whose send waits for room.
ChannelHasRoomBounded(q) == Len(q) < 1

\* mpsc::channel::<String>() is unbounded: send never waits for room in the queue.
ChannelHasRoom(q) == TRUE

\* peer_writer_tx.send(text): an unbounded channel, so the call returns at once; it
\* fails, and queues nothing, when the Writer Loop has dropped the receiver.
Enqueue(c, text) ==
    /\ tx_copies[c] > 0
    /\ TotalEnqueued < MaxEnq
    /\ ChannelHasRoom(outq[c])
    /\ IF writer_pc[c] = "done"
       THEN UNCHANGED <<outq, enqueued>>
       ELSE /\ outq' = [outq EXCEPT ![c] = Append(@, text)]
            /\ enqueued' = [enqueued EXCEPT ![c] = Append(@, text)]
    /\ UNCHANGED <<ends, hs_call, network_key, stream, result, auth_ran, peer, hs_keys, spawned, pc_alive,
                   tx_copies, writer_pc, writer_msg, writer_res, reader_pc, reader_res,
                   wire, event_bus, bus_alive, written, recv_log, injected>>
    /\ UNCHANGED mux_vars

\* peer_writer_tx.clone()
CloneTx(c) ==
    /\ tx_copies[c] > 0
    /\ tx_copies[c] < MaxCopies
    /\ tx_copies' = [tx_copies EXCEPT ![c] = @ + 1]
    /\ UNCHANGED <<ends, hs_call, network_key, stream, result, auth_ran, peer, hs_keys, spawned, pc_alive,
                   outq, writer_pc, writer_msg, writer_res, reader_pc, reader_res, wire,
                   event_bus, bus_alive, enqueued, written, recv_log, injected>>
    /\ UNCHANGED mux_vars

\* Drop of a copy of peer_writer_tx held outside the PeerConnection.
DropTx(c) ==
    /\ tx_copies[c] > (IF pc_alive[c] THEN 1 ELSE 0)
    /\ tx_copies' = [tx_copies EXCEPT ![c] = @ - 1]
    /\ UNCHANGED <<ends, hs_call, network_key, stream, result, auth_ran, peer, hs_keys, spawned, pc_alive,
                   outq, writer_pc, writer_msg, writer_res, reader_pc, reader_res, wire,
                   event_bus, bus_alive, enqueued, written, recv_log, injected>>
    /\ UNCHANGED mux_vars

\* Mutant: dropping the PeerConnection cancels its Reader Loop.
DropPeerConnectionCancels(c) ==
    /\ pc_alive[c]
    /\ pc_alive' = [pc_alive EXCEPT ![c] = FALSE]
    /\ tx_copies' = [tx_copies EXCEPT ![c] = @ - 1]
    /\ reader_pc' = [reader_pc EXCEPT ![c] = "done"]
    /\ UNCHANGED <<ends, hs_call, network_key, stream, result, auth_ran, peer, hs_keys,
                   spawned, outq, writer_pc, writer_msg, writer_res, reader_res, wire,
                   event_bus, bus_alive, enqueued, written, recv_log, injected>>
    /\ UNCHANGED mux_vars

\* Drop of the PeerConnection value: its peer_writer_tx goes, and the two
\* JoinHandles are dropped, which detaches the threads.
DropPeerConnection(c) ==
    /\ pc_alive[c]
    /\ pc_alive' = [pc_alive EXCEPT ![c] = FALSE]
    /\ tx_copies' = [tx_copies EXCEPT ![c] = @ - 1]
    /\ UNCHANGED <<ends, hs_call, network_key, stream, result, auth_ran, peer, hs_keys, spawned, outq,
                   writer_pc, writer_msg, writer_res, reader_pc, reader_res, wire,
                   event_bus, bus_alive, enqueued, written, recv_log, injected>>
    /\ UNCHANGED mux_vars

\* ---- Writer Loop
\* Mutant: the newest queued message is taken first.
WriterTakeNewest(q) == [msg |-> q[Len(q)], rest |-> SubSeq(q, 1, Len(q) - 1)]

\* rx.recv() of the Writer Loop: the oldest queued message, and what stays queued.
WriterTake(q) == [msg |-> Head(q), rest |-> Tail(q)]

\* Mutant: a RecvError is ignored and the loop goes round.
WriterAfterRecvErrSpins == "recv"

\* Mutant: an io::Error of the write is ignored and the loop goes round.
WriterAfterSendIgnoresErr(ok) == "recv"

\* The `?` after rx.recv(): a RecvError ends the loop.
WriterAfterRecvErr == "done"

\* The `?` after box_writer.send(): an io::Error ends the loop.
WriterAfterSend(ok) == IF ok THEN "recv" ELSE "done"

\* Mutant: recv fails as soon as every sender is gone, whatever is still buffered.
RecvHasMessageWhileConnected(q, senders) == q # <<>> /\ senders > 0

\* Receiver::recv returns Ok for as long as the channel buffers a message, also
\* after the last Sender was dropped.
RecvHasMessage(q, senders) == q # <<>>

\* rx.recv().map(String::into_bytes).context(MsgReceiveFailed)?
\* recv blocks while the queue is empty and a sender lives; it fails once the
\* queue is empty and every sender is gone.
WriterRecv(c) ==
    /\ writer_pc[c] = "recv"
    /\ outq[c] # <<>> \/ tx_copies[c] = 0
    /\ IF RecvHasMessage(outq[c], tx_copies[c])
       THEN /\ writer_msg' = [writer_msg EXCEPT ![c] = into_bytes(WriterTake(outq[c]).msg)]
            /\ outq' = [outq EXCEPT ![c] = WriterTake(outq[c]).rest]
            /\ writer_pc' = [writer_pc EXCEPT ![c] = "send"]
            /\ UNCHANGED writer_res
       ELSE /\ writer_pc' = [writer_pc EXCEPT ![c] = WriterAfterRecvErr]
            /\ writer_res' = [writer_res EXCEPT ![c] =
                                  IF WriterAfterRecvErr = "done" THEN "MsgReceiveFailed" ELSE @]
            /\ UNCHANGED <<writer_msg, outq>>
    /\ UNCHANGED <<ends, hs_call, network_key, stream, result, auth_ran, peer, hs_keys, spawned, pc_alive,
                   tx_copies, reader_pc, reader_res, wire, event_bus, bus_alive, enqueued,
                   written, recv_log, injected>>
    /\ UNCHANGED mux_vars

\* box_writer.send(peer_msg).context(BoxWriterError)?
\* On an error the closure returns: rx is dropped with whatever it still holds.
WriterSend(c, ok) ==
    /\ writer_pc[c] = "send"
    /\ written' = [written EXCEPT ![c] = Append(@, writer_msg[c])]
    /\ writer_msg' = [writer_msg EXCEPT ![c] = <<>>]
    /\ writer_pc' = [writer_pc EXCEPT ![c] = WriterAfterSend(ok)]
    /\ IF ok
       THEN /\ wire' = [wire EXCEPT ![Other(c)] =
                            Append(@, BoxWriterFrame(writer_msg[c], hs_keys[c].write_key))]
            /\ UNCHANGED <<writer_res, outq>>
       ELSE /\ writer_res' = [writer_res EXCEPT ![c] = "BoxWriterError"]
            /\ outq' = [outq EXCEPT ![c] = IF WriterAfterSend(ok) = "done" THEN <<>> ELSE @]
            /\ UNCHANGED wire
    /\ UNCHANGED <<ends, hs_call, network_key, stream, result, auth_ran, peer, hs_keys, spawned, pc_alive,
                   tx_copies, reader_pc, reader_res, event_bus, bus_alive, enqueued,
                   recv_log, injected>>
    /\ UNCHANGED mux_vars

\* ---- Reader Loop
\* tx.send(PeerManagerEvent { peer, event: MessageReceived(peer_msg) }); the
\* Result is discarded, and a send to a dropped Receiver delivers nothing.
SinkSend(bus, alive, evt) == IF alive THEN Append(bus, evt) ELSE bus

\* Mutant: a failed send to the sink ends the loop.
ReaderAfterSinkSendChecked(alive) == IF alive THEN "recv" ELSE "done"

\* The statement tx.send(...); of the Reader Loop: its Result is discarded, so the
\* loop body ends and the loop goes round whether or not the sink took the event.
ReaderAfterSinkSend(alive) == "recv"

\* Mutant: the loop is left, with Ok(()), when recv reports None.
ReaderNextPcBreaksOnNone(r) == IF r.ok /\ r.some THEN "recv" ELSE "done"

\* Mutant: an Err of recv is ignored and the loop goes round.
ReaderNextPcIgnoresErr(r) == "recv"

\* Where the Reader Loop goes after one recv: `?` returns on Err, and every Ok,
\* Some or None, runs to the end of the loop body and back to recv.
ReaderNextPc(r) == IF r.ok THEN "recv" ELSE "done"

\* One iteration of the loop of spawn_reader_loop; recv blocks while the
\* transport holds no frame. An event is PeerManagerEvent { peer, event:
\* MessageReceived(text) }; `from` is history, the connection whose loop sent it.
ReaderLoop(c) ==
    /\ reader_pc[c] = "recv"
    /\ wire[c] # <<>>
    /\ LET r == BoxReaderRecv(Head(wire[c]), hs_keys[c].read_key)
       IN  /\ wire' = [wire EXCEPT ![c] = Tail(@)]
           /\ recv_log' = [recv_log EXCEPT ![c] = Append(@, r)]
           /\ reader_pc' = [reader_pc EXCEPT ![c] =
                                 IF ReaderNextPc(r) = "recv"
                                 THEN ReaderAfterSinkSend(bus_alive)
                                 ELSE "done"]
           /\ IF r.ok
              THEN /\ event_bus' = SinkSend(event_bus, bus_alive,
                                            [peer |-> peer[c], from |-> c, text |-> PeerMsgOf(r)])
                   /\ UNCHANGED reader_res
              ELSE /\ reader_res' = [reader_res EXCEPT ![c] = "BoxReaderError"]
                   /\ UNCHANGED event_bus
    /\ UNCHANGED <<ends, hs_call, network_key, stream, result, auth_ran, peer, hs_keys, spawned, pc_alive,
                   tx_copies, outq, writer_pc, writer_msg, writer_res, bus_alive, enqueued,
                   written, injected>>
    /\ UNCHANGED mux_vars

\* ---- environment of a connection
\* A remote initiator connects to the listener and names the key it expects.
RemoteConnect(claimed_pk) ==
    /\ "c" \notin ends
    /\ ~stream.open
    /\ stream' = [open |-> TRUE, claimed_pk |-> claimed_pk, client_addr |-> ClientSocketAddr]
    /\ UNCHANGED <<ends, hs_call, network_key, result, auth_ran, peer, hs_keys, spawned, pc_alive,
                   tx_copies, outq, writer_pc, writer_msg, writer_res, reader_pc, reader_res,
                   wire, event_bus, bus_alive, enqueued, written, recv_log, injected>>
    /\ UNCHANGED mux_vars

Inject(c, frame) ==
    /\ reader_pc[c] = "recv"
    /\ injected < MaxInject
    /\ injected' = injected + 1
    /\ wire' = [wire EXCEPT ![c] = Append(@, frame)]
    /\ UNCHANGED <<ends, hs_call, network_key, stream, result, auth_ran, peer, hs_keys, spawned, pc_alive,
                   tx_copies, outq, writer_pc, writer_msg, writer_res, reader_pc, reader_res,
                   event_bus, bus_alive, enqueued, written, recv_log>>
    /\ UNCHANGED mux_vars

\* A remote implementation sends a frame of its own making.
RemoteSend(c, bytes) == Inject(c, [kind |-> "data", key |-> hs_keys[c].read_key, bytes |-> bytes])

\* The remote peer closes its box stream: the goodbye frame.
RemoteGoodbye(c) == Inject(c, [kind |-> "goodbye", key |-> hs_keys[c].read_key, bytes |-> <<>>])

\* A malformed or forged frame, or a transport error.
TransportFail(c) == Inject(c, [kind |-> "bad", key |-> NoKey, bytes |-> <<>>])

\* The owner of the sink drops its Receiver.
DropBus ==
    /\ bus_alive
    /\ bus_alive' = FALSE
    /\ UNCHANGED <<ends, hs_call, network_key, stream, result, auth_ran, peer, hs_keys, spawned, pc_alive,
                   tx_copies, outq, writer_pc, writer_msg, writer_res, reader_pc, reader_res,
                   wire, event_bus, enqueued, written, recv_log, injected>>
    /\ UNCHANGED mux_vars

\* ====================================================================== event.rs
\* Config::default().exit_key
ExitKey == "q"

\* Keys stdin.keys() may yield.
Keys == {"q", "a"}

\* What DiscoveryService::recv may return inside Ok.
DiscoveredPeers == {[public_key |-> "pkS", socket_addr |-> ServerSocketAddr, protocol |-> "Net"]}

\* What the peer manager may send on peer_manager_rx.
PmEvents == {[peer |-> p, text |-> GoodbyeText] : p \in DiscoveredPeers}

\* Mutant: only the Input producer keeps a clone of tx.
SendersAliveInputOnly == IF input_pc = "run" THEN 1 ELSE 0

\* Senders of the shared queue still alive: each producer thread owns one clone
\* of tx for as long as it runs; the tx of with_config itself is dropped on return.
SendersAlive ==
    (IF input_pc = "run" THEN 1 ELSE 0) + (IF tick_pc = "run" THEN 1 ELSE 0)
        + (IF new_peer_pc = "run" THEN 1 ELSE 0) + (IF pm_pc = "run" THEN 1 ELSE 0)

\* tx.send(evt) on the shared queue: queued while the Receiver lives, else Err.
MuxSend(evt) ==
    IF rx_alive
    THEN /\ rx_queue' = Append(rx_queue, evt)
         /\ arrived' = Append(arrived, evt)
    ELSE UNCHANGED <<rx_queue, arrived>>

\* Mutant: the exit key is not tested.
InputAfterSendKeepsReading(key) == "run"

\* The Input producer after a key was sent: it returns on the exit key.
InputAfterSend(key) == IF key = ExitKey THEN "done" ELSE "run"

\* Input producer, Ok(key): send, return on a send error, return on the exit key.
InputKey(key) ==
    /\ input_pc = "run"
    /\ Len(arrived) < MaxArrived
    /\ input_last' = key
    /\ sent_n' = [sent_n EXCEPT !["Input"] = IF rx_alive THEN @ + 1 ELSE @]
    /\ MuxSend([kind |-> "Input", val |-> key, n |-> sent_n["Input"] + 1])
    /\ IF ~rx_alive
       THEN /\ input_pc' = "done"
            /\ input_stop' = "send_err"
       ELSE /\ input_pc' = InputAfterSend(key)
            /\ input_stop' = IF InputAfterSend(key) = "done" THEN "exit" ELSE input_stop
    /\ UNCHANGED <<rx_alive, delivered, last_next, tick_pc, new_peer_pc, pm_pc, pm_chan,
                   pm_tx_alive, pm_made>>
    /\ UNCHANGED conn_vars

\* Input producer, Err(_) => {}
InputErr ==
    /\ input_pc = "run"
    /\ UNCHANGED vars

\* Input producer, stdin.keys() is exhausted: the for loop and the thread end.
InputEof ==
    /\ input_pc = "run"
    /\ input_pc' = "done"
    /\ input_stop' = "eof"
    /\ UNCHANGED <<rx_queue, rx_alive, arrived, delivered, last_next, input_last, tick_pc,
                   new_peer_pc, pm_pc, sent_n, pm_chan, pm_tx_alive, pm_made>>
    /\ UNCHANGED conn_vars

\* Mutant: the Tick thread ends after its first send.
TickAfterSendOnce(alive) == "panicked"

\* The Tick producer after tx.send(Event::Tick).unwrap(): a failed send panics.
TickAfterSend(alive) == IF alive THEN "run" ELSE "panicked"

\* Tick producer: one iteration, send then sleep.
Tick ==
    /\ tick_pc = "run"
    /\ Len(arrived) < MaxArrived
    /\ sent_n' = [sent_n EXCEPT !["Tick"] = IF rx_alive THEN @ + 1 ELSE @]
    /\ MuxSend([kind |-> "Tick", val |-> "tick", n |-> sent_n["Tick"] + 1])
    /\ tick_pc' = TickAfterSend(rx_alive)
    /\ UNCHANGED <<rx_alive, delivered, last_next, input_pc, input_stop, input_last,
                   new_peer_pc, pm_pc, pm_chan, pm_tx_alive, pm_made>>
    /\ UNCHANGED conn_vars

\* Discovery relay, peer_listener.recv() returned Ok(ssb_peer): the send's
\* Result is discarded.
NewPeerRelay(ssb_peer) ==
    /\ new_peer_pc = "run"
    /\ Len(arrived) < MaxArrived
    /\ sent_n' = [sent_n EXCEPT !["NewPeer"] = IF rx_alive THEN @ + 1 ELSE @]
    /\ MuxSend([kind |-> "NewPeer", val |-> ssb_peer, n |-> sent_n["NewPeer"] + 1])
    /\ UNCHANGED <<rx_alive, delivered, last_next, input_pc, input_stop, input_last,
                   tick_pc, new_peer_pc, pm_pc, pm_chan, pm_tx_alive, pm_made>>
    /\ UNCHANGED conn_vars

\* Discovery relay, peer_listener.recv() returned Err: the loop goes round.
NewPeerErr ==
    /\ new_peer_pc = "run"
    /\ UNCHANGED vars

\* peer_manager_rx.recv() of the relay: the oldest event, and what stays queued.
PmTake(q) == [item |-> Head(q), rest |-> Tail(q)]

\* Peer-manager relay: recv returns the oldest event, which is sent on with its
\* Result discarded; recv blocks on an empty channel whose sender lives, and
\* returns Err, so that the loop goes round, once the sender is gone.
PmRelay ==
    /\ pm_pc = "run"
    /\ pm_chan # <<>> \/ ~pm_tx_alive
    /\ IF pm_chan # <<>>
       THEN /\ Len(arrived) < MaxArrived
            /\ pm_chan' = PmTake(pm_chan).rest
            /\ MuxSend([kind |-> "PeerManagerEvent",
                        val  |-> PmTake(pm_chan).item.evt,
                        n    |-> PmTake(pm_chan).item.n])
       ELSE UNCHANGED <<pm_chan, rx_queue, arrived>>
    /\ UNCHANGED <<rx_alive, delivered, last_next, input_pc, input_stop, input_last,
                   tick_pc, new_peer_pc, pm_pc, sent_n, pm_tx_alive, pm_made>>
    /\ UNCHANGED conn_vars

\* The peer manager sends an event; n is its place in the peer manager's output.
PmProduce(evt) ==
    /\ pm_tx_alive
    /\ pm_made < MaxPm
    /\ pm_made' = pm_made + 1
    /\ pm_chan' = Append(pm_chan, [evt |-> evt, n |-> pm_made + 1])
    /\ UNCHANGED <<rx_queue, rx_alive, arrived, delivered, last_next, input_pc, input_stop,
                   input_last, tick_pc, new_peer_pc, pm_pc, sent_n, pm_tx_alive>>
    /\ UNCHANGED conn_vars

\* The peer manager drops its sender.
PmDropSender ==
    /\ pm_tx_alive
    /\ pm_tx_alive' = FALSE
    /\ UNCHANGED <<rx_queue, rx_alive, arrived, delivered, last_next, input_pc, input_stop,
                   input_last, tick_pc, new_peer_pc, pm_pc, sent_n, pm_chan, pm_made>>
    /\ UNCHANGED conn_vars

\* Mutant: the newest queued event is returned first.
NextTakeNewest(q) == [evt |-> q[Len(q)], rest |-> SubSeq(q, 1, Len(q) - 1)]

\* self.rx.recv() of next(): the oldest queued event, and what stays queued.
NextTake(q) == [evt |-> Head(q), rest |-> Tail(q)]

\* Events::next: blocks while the queue is empty and a sender lives; Err once
\* the queue is empty and every sender is gone.
EventsNext ==
    /\ rx_alive
    /\ rx_queue # <<>> \/ SendersAlive = 0
    /\ IF rx_queue # <<>>
       THEN /\ delivered' = Append(delivered, NextTake(rx_queue).evt)
            /\ rx_queue' = NextTake(rx_queue).rest
            /\ last_next' = "event"
       ELSE /\ last_next' = "err"
            /\ UNCHANGED <<delivered, rx_queue>>
    /\ UNCHANGED <<rx_alive, arrived, input_pc, input_stop, input_last, tick_pc,
                   new_peer_pc, pm_pc, sent_n, pm_chan, pm_tx_alive, pm_made>>
    /\ UNCHANGED conn_vars

\* The Events value is dropped: rx goes with what it holds, and the four
\* JoinHandles are dropped, which detaches the threads.
DropEvents ==
    /\ rx_alive
    /\ rx_alive' = FALSE
    /\ rx_queue' = <<>>
    /\ UNCHANGED <<arrived, delivered, last_next, input_pc, input_stop, input_last,
                   tick_pc, new_peer_pc, pm_pc, sent_n, pm_chan, pm_tx_alive, pm_made>>
    /\ UNCHANGED conn_vars

\* ================================================================ specifications
\* Nothing constructed yet.
ConnStart ==
    /\ hs_call = [c \in Conns |-> [called |-> FALSE, connect_ok |-> FALSE,
                                   auth_ok |-> FALSE, clone_ok |-> FALSE]]
    /\ stream = NoStream
    /\ result = [c \in Conns |-> "none"]
    /\ auth_ran = [c \in Conns |-> FALSE]
    /\ peer = [c \in Conns |-> NoPeer]
    /\ hs_keys = [c \in Conns |-> NoKeys]
    /\ spawned = [c \in Conns |-> {}]
    /\ pc_alive = [c \in Conns |-> FALSE]
    /\ tx_copies = [c \in Conns |-> 0]
    /\ outq = [c \in Conns |-> <<>>]
    /\ writer_pc = [c \in Conns |-> "none"]
    /\ writer_msg = [c \in Conns |-> <<>>]
    /\ writer_res = [c \in Conns |-> "none"]
    /\ reader_pc = [c \in Conns |-> "none"]
    /\ reader_res = [c \in Conns |-> "none"]
    /\ wire = [c \in Conns |-> <<>>]
    /\ event_bus = <<>>
    /\ bus_alive = TRUE
    /\ enqueued = [c \in Conns |-> <<>>]
    /\ written = [c \in Conns |-> <<>>]
    /\ recv_log = [c \in Conns |-> <<>>]
    /\ injected = 0

\* The state Events::with_config returns in: four producers running, nothing sent.
InitMux ==
    /\ rx_queue = <<>>
    /\ rx_alive = TRUE
    /\ arrived = <<>>
    /\ delivered = <<>>
    /\ last_next = "none"
    /\ input_pc = "run"
    /\ input_stop = "none"
    /\ input_last = "none"
    /\ tick_pc = "run"
    /\ new_peer_pc = "run"
    /\ pm_pc = "run"
    /\ sent_n = [p \in {"Input", "Tick", "NewPeer"} |-> 0]
    /\ pm_chan = <<>>
    /\ pm_tx_alive = TRUE
    /\ pm_made = 0

\* One end of the stream is this program, client or server; the two ends may or
\* may not share a network key.
Init ==
    /\ ends \in {{"c"}, {"s"}}
    /\ network_key \in {nk \in [Conns -> NetKeys] : nk["c"] = "nk1"}
    /\ ConnStart
    /\ InitMux

\* The connections, with an environment that may fail.
Next ==
    \/ \E target \in ClientTargets, connect_ok \in BOOLEAN, io_ok \in BOOLEAN,
          clone_ok \in BOOLEAN : ClientHandshake(target, connect_ok, io_ok, clone_ok)
    \/ \E io_ok \in BOOLEAN, clone_ok \in BOOLEAN : ServerHandshake(io_ok, clone_ok)
    \/ \E claimed_pk \in {"pkS", "pkX"} : RemoteConnect(claimed_pk)
    \/ \E c \in Conns, text \in Texts : Enqueue(c, text)
    \/ \E c \in Conns : CloneTx(c)
    \/ \E c \in Conns : DropTx(c)
    \/ \E c \in Conns : DropPeerConnection(c)
    \/ \E c \in Conns : WriterRecv(c)
    \/ \E c \in Conns, ok \in BOOLEAN : WriterSend(c, ok)
    \/ \E c \in Conns : ReaderLoop(c)
    \/ \E c \in Conns, bytes \in RawPayloads : RemoteSend(c, bytes)
    \/ \E c \in Conns : RemoteGoodbye(c)
    \/ \E c \in Conns : TransportFail(c)
    \/ DropBus

Spec == Init /\ [][Next]_vars

\* The multiplexer.
NextMux ==
    \/ \E key \in Keys : InputKey(key)
    \/ InputErr
    \/ InputEof
    \/ Tick
    \/ \E ssb_peer \in DiscoveredPeers : NewPeerRelay(ssb_peer)
    \/ NewPeerErr
    \/ PmRelay
    \/ \E evt \in PmEvents : PmProduce(evt)
    \/ PmDropSender
    \/ EventsNext
    \/ DropEvents

\* No connection is involved in the multiplexer's runs.
InitMuxOnly ==
    /\ ends = {}
    /\ network_key = [c \in Conns |-> "nk1"]
    /\ ConnStart
    /\ InitMux

SpecMux == InitMuxOnly /\ [][NextMux]_vars

\* The multiplexer with its Tick thread scheduled.
SpecMuxFair ==
    /\ InitMuxOnly
    /\ [][NextMux]_vars
    /\ WF_vars(Tick)

\* The two ends of one stream, both this program, on a transport that holds:
\* connect, the handshake's transport and try_clone succeed, every write succeeds
\* and nothing but the two Writer Loops puts frames on the wire.
InitE2E ==
    /\ ends = Conns
    /\ network_key \in {nk \in [Conns -> NetKeys] : nk["c"] = "nk1"}
    /\ ConnStart
    /\ InitMux

NextE2E ==
    \/ \E target \in ClientTargets : ClientHandshake(target, TRUE, TRUE, TRUE)
    \/ ServerHandshake(TRUE, TRUE)
    \/ \E c \in Conns, text \in Texts : Enqueue(c, text)
    \/ \E c \in Conns : WriterRecv(c)
    \/ \E c \in Conns : WriterSend(c, TRUE)
    \/ \E c \in Conns : ReaderLoop(c)

\* Each loop is a thread of its own, which the scheduler runs when it can step.
SpecE2E ==
    /\ InitE2E
    /\ [][NextE2E]_vars
    /\ \A c \in Conns : /\ WF_vars(WriterRecv(c))
                         /\ WF_vars(WriterSend(c, TRUE))
                         /\ WF_vars(ReaderLoop(c))

\* The two ends of one stream, both this program, where a connect, a handshake,
\* try_clone and a socket write may fail; nothing but the two Writer Loops puts
\* frames on the wire.
NextPair ==
    \/ \E target \in ClientTargets, connect_ok \in BOOLEAN, io_ok \in BOOLEAN,
          clone_ok \in BOOLEAN : ClientHandshake(target, connect_ok, io_ok, clone_ok)
    \/ \E io_ok \in BOOLEAN, clone_ok \in BOOLEAN : ServerHandshake(io_ok, clone_ok)
    \/ \E c \in Conns, text \in Texts : Enqueue(c, text)
    \/ \E c \in Conns : WriterRecv(c)
    \/ \E c \in Conns, ok \in BOOLEAN : WriterSend(c, ok)
    \/ \E c \in Conns : ReaderLoop(c)

SpecPair == InitE2E /\ [][NextPair]_vars

\* The outbound side of a connection alone: construction, the send handle and
\* the Writer Loop, whose thread is scheduled and whose socket writes return.
NextWriter ==
    \/ \E target \in ClientTargets, connect_ok \in BOOLEAN, io_ok \in BOOLEAN,
          clone_ok \in BOOLEAN : ClientHandshake(target, connect_ok, io_ok, clone_ok)
    \/ \E io_ok \in BOOLEAN, clone_ok \in BOOLEAN : ServerHandshake(io_ok, clone_ok)
    \/ \E claimed_pk \in {"pkS", "pkX"} : RemoteConnect(claimed_pk)
    \/ \E c \in Conns, text \in Texts : Enqueue(c, text)
    \/ \E c \in Conns : CloneTx(c)
    \/ \E c \in Conns : DropTx(c)
    \/ \E c \in Conns : DropPeerConnection(c)
    \/ \E c \in Conns : WriterRecv(c)
    \/ \E c \in Conns, ok \in BOOLEAN : WriterSend(c, ok)

SpecWriterFair ==
    /\ Init
    /\ [][NextWriter]_vars
    /\ \A c \in Conns : /\ WF_vars(WriterRecv(c))
                         /\ WF_vars(\E ok \in BOOLEAN : WriterSend(c, ok))

\* ========================================================================= claims
\* The events the sink accepted from the Reader Loop of connection c.
EventsIn(bus, c) == SelectSeq(bus, LAMBDA e : e.from = c)

EventsFrom(c) == EventsIn(event_bus, c)

OkRecvs(c) == SelectSeq(recv_log[c], LAMBDA r : r.ok)

IsNone(r) == r.ok /\ ~r.some

\* C1: when recv reports None the Reader Loop sends one "Goodbye!" event and
\* then terminates: the None is the last thing it received, the thread is done
\* and the last event of the connection is that "Goodbye!".
C1_GoodbyeEndsReaderLoop ==
    \A c \in Conns :
        \A i \in 1..Len(recv_log[c]) :
            IsNone(recv_log[c][i]) =>
                /\ i = Len(recv_log[c])
                /\ reader_pc[c] = "done"
                /\ bus_alive => /\ EventsFrom(c) # <<>>
                                /\ EventsFrom(c)[Len(EventsFrom(c))].text = GoodbyeText

\* C2: the payloads the Writer Loop has passed to box_writer.send are, in
\* order, the encodings of a prefix of the messages enqueued on the connection.
C2_WriterKeepsOrder ==
    \A c \in Conns :
        /\ Len(written[c]) <= Len(enqueued[c])
        /\ \A i \in 1..Len(written[c]) : written[c][i] = into_bytes(enqueued[c][i])

\* C2 witness: two different messages enqueued on one connection, both written.
C2_Witness ==
    \E c \in Conns :
        /\ Len(written[c]) >= 2
        /\ enqueued[c][1] # enqueued[c][2]

\* C5: on a stream whose two handshakes succeeded, over a transport that does
\* not fail, every text enqueued on one end is eventually an event of the other
\* end's Reader Loop; that end's events are, one for one and in order, the
\* texts enqueued (same text, the authenticated peer), and the session keys
\* of the two ends are direction-consistent.
C5_EndToEnd ==
    /\ [](\A c \in Conns :
            /\ Len(EventsFrom(Other(c))) <= Len(enqueued[c])
            /\ \A i \in 1..Len(EventsFrom(Other(c))) :
                  /\ EventsFrom(Other(c))[i].text = enqueued[c][i]
                  /\ EventsFrom(Other(c))[i].peer = peer[Other(c)])
    /\ []((result["c"] = "Ok" /\ result["s"] = "Ok") =>
            /\ hs_keys["c"].write_key = hs_keys["s"].read_key
            /\ hs_keys["s"].write_key = hs_keys["c"].read_key
            /\ hs_keys["c"].write_key # hs_keys["c"].read_key)
    /\ \A c \in Conns : \A i \in 1..MaxEnq :
          (result["c"] = "Ok" /\ result["s"] = "Ok" /\ Len(enqueued[c]) >= i)
              ~> (Len(EventsFrom(Other(c))) >= i)

\* C5 witness: "ping", enqueued on the client end, is an event of the server end.
C5_Witness ==
    /\ result["c"] = "Ok"
    /\ result["s"] = "Ok"
    /\ enqueued["c"] # <<>>
    /\ enqueued["c"][1] = <<112, 105, 110, 103>>
    /\ EventsFrom("s") # <<>>
    /\ EventsFrom("s")[1].text = <<112, 105, 110, 103>>
    /\ EventsFrom("s")[1].peer.public_key = PublicKeyOf["c"]

\* C6: the result of client_handshake / server_handshake is the typed error of
\* the first step that failed (connect, then the authentication step, then
\* try_clone); the authentication step is not run after a failed connect; and a
\* PeerConnection (its peer, its send handle, its loops) exists only when every
\* step, the authentication step among them, succeeded.
C6_ConstructionErrors ==
    \A c \in Conns :
        /\ ~hs_call[c].called => result[c] = "none"
        /\ hs_call[c].called =>
              /\ (result[c] = "CannotConnectToPeer") <=> ~hs_call[c].connect_ok
              /\ (result[c] = "HandshakeFailed") <=>
                     (hs_call[c].connect_ok /\ ~hs_call[c].auth_ok)
              /\ (result[c] = "TcpStreamCloneFailed") <=>
                     (hs_call[c].connect_ok /\ hs_call[c].auth_ok /\ ~hs_call[c].clone_ok)
              /\ (result[c] = "Ok") <=>
                     (hs_call[c].connect_ok /\ hs_call[c].auth_ok /\ hs_call[c].clone_ok)
              /\ auth_ran[c] <=> hs_call[c].connect_ok
        /\ result[c] = "CannotConnectToPeer" => c = "c"
        /\ result[c] # "Ok" =>
              /\ peer[c] = NoPeer
              /\ ~pc_alive[c]
              /\ tx_copies[c] = 0
              /\ spawned[c] = {}
              /\ writer_pc[c] = "none"
              /\ reader_pc[c] = "none"
        /\ (peer[c] # NoPeer \/ pc_alive[c] \/ tx_copies[c] > 0) =>
              (auth_ran[c] /\ hs_call[c].auth_ok)

\* C6 witness: the authentication step succeeded and try_clone failed.
C6_Witness ==
    \E c \in Conns :
        /\ result[c] = "TcpStreamCloneFailed"
        /\ auth_ran[c]
        /\ hs_call[c].auth_ok

\* C7: a failure of recv is the last thing the Reader Loop receives: the thread
\* is done with BoxReaderError, the sink holds no more events of the connection
\* than recv returned payloads or goodbyes (none for the failure), and a
\* finished Reader Loop stays finished and sends nothing.
C7_ReaderFailureIsFatal ==
    /\ [](\A c \in Conns :
            /\ \A i \in 1..Len(recv_log[c]) :
                  ~recv_log[c][i].ok =>
                      /\ i = Len(recv_log[c])
                      /\ reader_pc[c] = "done"
                      /\ reader_res[c] = "BoxReaderError"
            /\ Len(EventsFrom(c)) <= Len(OkRecvs(c)))
    /\ [][\A c \in Conns :
            reader_pc[c] = "done" =>
                /\ reader_pc'[c] = "done"
                /\ recv_log'[c] = recv_log[c]
                /\ EventsIn(event_bus', c) = EventsIn(event_bus, c)]_vars

\* C7 witness: recv failed after an event of the connection had been sent.
C7_Witness ==
    \E c \in Conns :
        /\ reader_res[c] = "BoxReaderError"
        /\ Len(EventsFrom(c)) >= 1

\* C8: the Writer Loop is done exactly when it holds an error result; it holds
\* MsgReceiveFailed only with every sender gone and nothing queued, and
\* BoxWriterError only after a write; once done it stays done and passes nothing
\* more to box_writer.send, whatever is or gets enqueued.
C8_WriterFailureIsFatal ==
    /\ [](\A c \in Conns :
            /\ writer_pc[c] = "done" <=> writer_res[c] \in {"MsgReceiveFailed", "BoxWriterError"}
            /\ writer_res[c] # "none" => writer_pc[c] = "done"
            /\ writer_res[c] = "MsgReceiveFailed" =>
                  /\ tx_copies[c] = 0
                  /\ Len(written[c]) = Len(enqueued[c])
            /\ writer_res[c] = "BoxWriterError" => written[c] # <<>>)
    /\ [][\A c \in Conns :
            writer_pc[c] = "done" =>
                /\ writer_pc'[c] = "done"
                /\ writer_res'[c] = writer_res[c]
                /\ written'[c] = written[c]
                /\ outq'[c] = <<>>]_vars

\* C8 witness: a write failed while another message was still queued.
C8_Witness ==
    \E c \in Conns :
        /\ writer_res[c] = "BoxWriterError"
        /\ Len(enqueued[c]) > Len(written[c])

\* C9: a Writer Loop whose send handle has no live copy left eventually
\* terminates, given that its socket writes return.
C9_WriterStopsWhenHandleDropped ==
    \A c \in Conns :
        (writer_pc[c] \in {"recv", "send"} /\ tx_copies[c] = 0) ~> (writer_pc[c] = "done")

\* C9 witness: every copy was dropped and the receive failed, after a message
\* had been written.
C9_Witness ==
    \E c \in Conns :
        /\ result[c] = "Ok"
        /\ tx_copies[c] = 0
        /\ writer_res[c] = "MsgReceiveFailed"
        /\ written[c] # <<>>

\* C10: the drop of the PeerConnection changes nothing of its Reader Loop (its
\* position, its result, the frames it has yet to read, what it has received and
\* sent); a Reader Loop whose PeerConnection is gone still takes the next frame;
\* and a Reader Loop ends only in a step in which recv returned a failure.
C10_DropLeavesReaderLoop ==
    /\ [][\A c \in Conns :
            (pc_alive[c] /\ ~pc_alive'[c]) =>
                /\ reader_pc'[c] = reader_pc[c]
                /\ reader_res'[c] = reader_res[c]
                /\ wire'[c] = wire[c]
                /\ recv_log'[c] = recv_log[c]
                /\ event_bus' = event_bus]_vars
    /\ [](\A c \in Conns :
            (result[c] = "Ok" /\ ~pc_alive[c] /\ wire[c] # <<>>
                /\ \A i \in 1..Len(recv_log[c]) : recv_log[c][i].ok)
                => ENABLED ReaderLoop(c))
    /\ [][\A c \in Conns :
            (reader_pc[c] = "recv" /\ reader_pc'[c] # "recv") =>
                /\ Len(recv_log'[c]) = Len(recv_log[c]) + 1
                /\ ~recv_log'[c][Len(recv_log'[c])].ok]_vars

\* C10 witness: the PeerConnection is gone, its Writer Loop has ended for it, and
\* the Reader Loop, which has forwarded a message, is about to take the next.
C10_Witness ==
    \E c \in Conns :
        /\ result[c] = "Ok"
        /\ ~pc_alive[c]
        /\ writer_res[c] = "MsgReceiveFailed"
        /\ reader_pc[c] = "recv"
        /\ Len(EventsFrom(c)) >= 1
        /\ wire[c] # <<>>

\* ---- the multiplexer
Producers == {"Input", "Tick", "NewPeer", "PeerManagerEvent"}

OfKind(seq, k) == SelectSeq(seq, LAMBDA e : e.kind = k)

ExitInputs(seq) == SelectSeq(seq, LAMBDA e : e.kind = "Input" /\ e.val = ExitKey)

OthersRunning == tick_pc = "run" /\ new_peer_pc = "run" /\ pm_pc = "run"

C4_DeliveryOrder ==
    /\ IsPrefix(delivered, arrived)
    /\ rx_alive => arrived = delivered \o rx_queue
    /\ \A p \in Producers :
          \A i \in 1..Len(OfKind(delivered, p)) : OfKind(delivered, p)[i].n = i

\* C4 witness: events of two producers delivered interleaved.
C4_Witness ==
    /\ Len(delivered) >= 3
    /\ delivered[1].kind = "Tick"
    /\ delivered[2].kind = "PeerManagerEvent"
    /\ delivered[3].kind = "Tick"

\* ---- C11..C20
\* What the event for one Ok of recv must carry: "Goodbye!" for None; for a
\* payload that is valid UTF-8 the text whose encoding is the payload; for any
\* other payload the non-empty rendering "Raw bytes: [b1, b2, ...]".
DecodesTo(r, text) ==
    IF ~r.some THEN text = GoodbyeText
    ELSE IF from_utf8(r.bytes).ok THEN into_bytes(text) = r.bytes
    ELSE /\ text # <<>>
         /\ IsPrefix(RawBytesPrefix, text)
         /\ text = RawBytesPrefix \o <<91>> \o DebugItems(r.bytes) \o <<93>>

\* C11 as stated: the sink holds, one for one and in order, an event for
\* everything recv has returned, each with the decoded text or the raw-byte
\* rendering of its payload, and no Ok of recv has ended the loop.
C11_EveryPayloadOneEvent ==
    \A c \in Conns :
        /\ Len(EventsFrom(c)) = Len(OkRecvs(c))
        /\ \A i \in 1..Len(EventsFrom(c)) : DecodesTo(OkRecvs(c)[i], EventsFrom(c)[i].text)
        /\ (recv_log[c] # <<>> /\ recv_log[c][Len(recv_log[c])].ok) =>
              (reader_pc[c] = "recv" /\ reader_res[c] = "none")

\* C11 amended: the events of a connection on the sink are, one for one and in
\* order, those of a prefix of what recv has returned, each with the decoded
\* text or the raw-byte rendering of its payload; the sink holds all of them for
\* as long as its receiver is alive (an event sent after that is lost); and no
\* Ok of recv, undecodable payloads included, ends the loop or sets its error.
C11_PayloadOneEventWhileSinkAlive ==
    \A c \in Conns :
        /\ Len(EventsFrom(c)) <= Len(OkRecvs(c))
        /\ bus_alive => Len(EventsFrom(c)) = Len(OkRecvs(c))
        /\ \A i \in 1..Len(EventsFrom(c)) : DecodesTo(OkRecvs(c)[i], EventsFrom(c)[i].text)
        /\ (recv_log[c] # <<>> /\ recv_log[c][Len(recv_log[c])].ok) =>
              (reader_pc[c] = "recv" /\ reader_res[c] = "none")

\* C11 witness: "p" and then the undecodable byte 0xC3 arrived; the sink holds
\* "p" and then "Raw bytes: [195]", and the loop is back at recv.
C11_Witness ==
    \E c \in Conns :
        /\ bus_alive
        /\ Len(recv_log[c]) = 2
        /\ Len(EventsFrom(c)) = 2
        /\ EventsFrom(c)[1].text = <<112>>
        /\ EventsFrom(c)[2].text = RawBytesPrefix \o <<91, 49, 57, 53, 93>>
        /\ reader_pc[c] = "recv"

\* C12: whoever holds a copy of a connection's outbound-send handle can enqueue
\* in every state (up to the bound MaxEnq of the exploration): whatever the length
\* of the outbound queue, and whether the Writer Loop waits at recv, is inside a
\* socket write or has terminated; and the enqueue is one step that leaves the
\* Writer Loop where it was.
C12_EnqueueNeverBlocks ==
    /\ [](\A c \in Conns, text \in Texts :
            (tx_copies[c] > 0 /\ TotalEnqueued < MaxEnq) => ENABLED Enqueue(c, text))
    /\ [][\A c \in Conns :
            enqueued'[c] # enqueued[c] =>
                /\ outq'[c] = Append(outq[c], enqueued'[c][Len(enqueued'[c])])
                /\ writer_pc'[c] = writer_pc[c]
                /\ writer_msg'[c] = writer_msg[c]]_vars

\* C12 witness: the Writer Loop is inside the socket write of a message enqueued
\* earlier, the handle is held, and a further enqueue can be made.
C12_Witness ==
    \E c \in Conns :
        /\ tx_copies[c] > 0
        /\ TotalEnqueued < MaxEnq
        /\ writer_pc[c] = "send"
        /\ enqueued[c] # <<>>

\* C13: the Tick, Discovery-relay and Peer-manager-relay producers never
\* terminate: in every reachable state, a failed discovery receive, a dropped
\* peer-manager sender and a dropped Events included, all three are running.
C13_OnlyInputTerminates ==
    /\ tick_pc = "run"
    /\ new_peer_pc = "run"
    /\ pm_pc = "run"

\* The loops thread::spawn has started, over all connections.
LoopsEverSpawned == Cardinality(spawned["c"]) + Cardinality(spawned["s"])

SuccessfulConstructions == Cardinality({c \in Conns : result[c] = "Ok"})

\* C14: the loops ever spawned are two for each successful construction, one
\* Writer Loop and one Reader Loop, both started; a construction that failed, at
\* connect, in the handshake or at the duplication of the socket handle, has
\* started none.
C14_TwoLoopsPerConnection ==
    /\ LoopsEverSpawned = 2 * SuccessfulConstructions
    /\ \A c \in Conns :
          /\ result[c] = "Ok" =>
                /\ spawned[c] = {"writer", "reader"}
                /\ writer_pc[c] # "none"
                /\ reader_pc[c] # "none"
          /\ (hs_call[c].called /\ ~(hs_call[c].connect_ok /\ hs_call[c].auth_ok
                                       /\ hs_call[c].clone_ok)) =>
                /\ spawned[c] = {}
                /\ writer_pc[c] = "none"
                /\ reader_pc[c] = "none"
          /\ "writer" \in spawned[c] <=> writer_pc[c] # "none"
          /\ "reader" \in spawned[c] <=> reader_pc[c] # "none"

\* C14 witness: of two constructions on one stream the client's succeeded and
\* the server's failed at try_clone, after its handshake: two loops in all.
C14_Witness ==
    /\ result["c"] = "Ok"
    /\ result["s"] = "TcpStreamCloneFailed"
    /\ hs_call["s"].auth_ok
    /\ LoopsEverSpawned = 2

\* C15: with the sink's receiver dropped, an iteration of the Reader Loop whose
\* recv succeeded delivers nothing, leaves the thread's result unset and leaves
\* the loop at recv; and the loop then takes the next frame.
C15_SinkFailureIsDropped ==
    /\ [][\A c \in Conns :
            (/\ ~bus_alive
             /\ Len(recv_log'[c]) = Len(recv_log[c]) + 1
             /\ recv_log'[c][Len(recv_log'[c])].ok) =>
                /\ event_bus' = event_bus
                /\ reader_res'[c] = "none"
                /\ reader_pc'[c] = "recv"]_vars
    /\ [](\A c \in Conns :
            (~bus_alive /\ reader_pc[c] = "recv" /\ wire[c] # <<>>) => ENABLED ReaderLoop(c))

\* C15 witness: after the sink was dropped a recv succeeded and its event was
\* lost; the loop has no result, is at recv, and the next frame is waiting.
C15_Witness ==
    \E c \in Conns :
        /\ ~bus_alive
        /\ Len(OkRecvs(c)) > Len(EventsFrom(c))
        /\ reader_res[c] = "none"
        /\ reader_pc[c] = "recv"
        /\ wire[c] # <<>>

\* C16: while Events is alive the Tick producer is running and, up to the bound
\* MaxArrived of the exploration, able to send; so with the Tick thread scheduled
\* a call of next() that finds the queue empty is eventually handed an event,
\* whatever the other three producers do or do not do; and next() returns as
\* soon as the queue holds an event.
C16_NextAlwaysReturns ==
    /\ [](rx_alive => tick_pc = "run")
    /\ []((rx_alive /\ Len(arrived) < MaxArrived) => ENABLED Tick)
    /\ []((rx_alive /\ rx_queue # <<>>) => ENABLED EventsNext)
    /\ (rx_alive /\ rx_queue = <<>> /\ Len(arrived) < MaxArrived)
          ~> (rx_queue # <<>> \/ ~rx_alive)

\* C16 witness: the Input producer has stopped on the exit key, discovery and the
\* peer manager have been silent, and next() has since returned two Ticks.
C16_Witness ==
    /\ rx_alive
    /\ input_pc = "done"
    /\ OfKind(arrived, "NewPeer") = <<>>
    /\ OfKind(arrived, "PeerManagerEvent") = <<>>
    /\ Len(delivered) = 3
    /\ delivered[1].kind = "Input"
    /\ delivered[2].kind = "Tick"
    /\ delivered[3].kind = "Tick"

\* C17: every event on the sink carries the peer of the PeerConnection whose
\* Reader Loop sent it, a connection that was constructed with success. That peer
\* is, on the client side, the PeerAddr client_handshake was called with, and on
\* the server side the authenticated client key with the remote address observed
\* on the stream; the two ends of a stream hold different peers, so no event of
\* one carries the peer of the other.
C17_EventsCarryAuthenticatedPeer ==
    /\ \A i \in 1..Len(event_bus) :
          /\ result[event_bus[i].from] = "Ok"
          /\ event_bus[i].peer = peer[event_bus[i].from]
          /\ event_bus[i].peer # NoPeer
          /\ result[Other(event_bus[i].from)] = "Ok" =>
                event_bus[i].peer # peer[Other(event_bus[i].from)]
    /\ result["c"] = "Ok" =>
          /\ peer["c"] \in ClientTargets
          /\ peer["c"].public_key = stream.claimed_pk
    /\ result["s"] = "Ok" =>
          peer["s"] = [public_key  |-> PublicKeyOf["c"],
                       socket_addr |-> stream.client_addr,
                       protocol    |-> "Net"]

\* C17 witness: the sink holds an event of each end of one stream, the server's
\* naming the client and the client's naming the server.
C17_Witness ==
    \E i, j \in 1..Len(event_bus) :
        /\ event_bus[i].from = "c"
        /\ event_bus[i].peer.public_key = PublicKeyOf["s"]
        /\ event_bus[j].from = "s"
        /\ event_bus[j].peer.public_key = PublicKeyOf["c"]
        /\ event_bus[j].peer.socket_addr = ClientSocketAddr

\* The encodings of everything enqueued on connection c, in order.
AllEncoded(c) == [i \in 1..Len(enqueued[c]) |-> into_bytes(enqueued[c][i])]

\* C18: the drop of a copy of the outbound-send handle takes nothing out of the
\* queue; a Writer Loop that ended with MsgReceiveFailed has written, in order,
\* every message that was enqueued; and once the last copy is gone the Writer
\* Loop does get there, unless a write fails.
C18_DropLosesNoQueuedMessage ==
    /\ [][\A c \in Conns :
            tx_copies'[c] < tx_copies[c] =>
                /\ outq'[c] = outq[c]
                /\ writer_pc'[c] = writer_pc[c]]_vars
    /\ [](\A c \in Conns :
            writer_res[c] = "MsgReceiveFailed" =>
                /\ outq[c] = <<>>
                /\ written[c] = AllEncoded(c))
    /\ \A c \in Conns :
          (result[c] = "Ok" /\ tx_copies[c] = 0)
              ~> \/ writer_res[c] = "BoxWriterError"
                 \/ writer_res[c] = "MsgReceiveFailed" /\ written[c] = AllEncoded(c)

\* C18 witness: every copy of the handle is gone, one message has been written
\* and another is still queued, with the Writer Loop at recv.
C18_Witness ==
    \E c \in Conns :
        /\ result[c] = "Ok"
        /\ tx_copies[c] = 0
        /\ written[c] # <<>>
        /\ outq[c] # <<>>
        /\ writer_pc[c] = "recv"

\* C19: the Reader Loop's thread has no completion value other than
\* BoxReaderError: it is finished exactly when it holds that error, and then the
\* last thing recv returned was a failure; a thread without a result is running.
C19_ReaderNeverSucceeds ==
    \A c \in Conns :
        /\ reader_res[c] \in {"none", "BoxReaderError"}
        /\ reader_pc[c] = "done" <=> reader_res[c] = "BoxReaderError"
        /\ reader_res[c] = "none" => reader_pc[c] \in {"none", "recv"}
        /\ reader_pc[c] = "done" =>
              /\ recv_log[c] # <<>>
              /\ ~recv_log[c][Len(recv_log[c])].ok

\* C19 witness: recv reported None, the loop went on, and the thread ended with
\* BoxReaderError on the failure that followed.
C19_Witness ==
    \E c \in Conns :
        /\ reader_pc[c] = "done"
        /\ reader_res[c] = "BoxReaderError"
        /\ Len(recv_log[c]) = 2
        /\ IsNone(recv_log[c][1])

\* C20: while Events is alive a sender of the shared queue is alive, the Tick
\* producer's among them (the Tick producer has failed only where Events is
\* gone); next() has never returned a receive error, and every return of next()
\* hands out one event.
C20_NextNeverErrs ==
    /\ [](rx_alive => SendersAlive >= 1)
    /\ [](tick_pc # "run" => ~rx_alive)
    /\ [](last_next # "err")
    /\ [][(last_next' # last_next \/ delivered' # delivered) =>
            /\ last_next' = "event"
            /\ Len(delivered') = Len(delivered) + 1]_vars

\* C20 witness: the Input producer has stopped, next() has returned an event
\* and the queue is empty again: the next call waits, it does not fail.
C20_Witness ==
    /\ rx_alive
    /\ input_pc = "done"
    /\ last_next = "event"
    /\ rx_queue = <<>>
    /\ SendersAlive = 3

====
